---- MODULE Spec2Model ----
(***************************************************************************)
(* Sentence-ranking and summary-evaluation pipeline of THExtended:         *)
(*   test.py  : evaluate_model, evaluate_article, compute_avg_dict         *)
(*   utils.py : clean_dataset, compute_rouges, compute_similarities,       *)
(*              aggregate_test_scores, get_scores, trigram_blocking        *)
(* Strings the code inspects character by character are sequences of       *)
(* one-character strings; scores are integers in fixed-point units.        *)
(***************************************************************************)
EXTENDS Integers, Sequences, FiniteSets, TLC

VARIABLES
    \* evaluate_model (test.py)
    dataset, pos, current_context, current_article_sentences, current_highlight,
    rouges, similarities, rank_calls, article_calls, ev_pc, ev_out,
    \* get_scores called on its own (utils.py)
    rk_sentences, rk_logits, rk_out, rk_pc,
    \* trigram_blocking (utils.py)
    tb_sentences, tb_out, tb_pc,
    \* clean_dataset (utils.py)
    ds, num_samples, cl_i, cleaned_ds, cl_taken, cl_pc, cl_out,
    \* compute_rouges and compute_similarities (utils.py)
    lb_fn, lb_sentences, lb_references, aggregation, is_test, lb_k, cr_rouges,
    tmp_rouges, engine_calls, encode_calls, lb_pc, lb_out

evVars == <<dataset, pos, current_context, current_article_sentences, current_highlight,
            rouges, similarities, rank_calls, article_calls, ev_pc, ev_out>>

rkVars == <<rk_sentences, rk_logits, rk_out, rk_pc>>

tbVars == <<tb_sentences, tb_out, tb_pc>>

clVars == <<ds, num_samples, cl_i, cleaned_ds, cl_taken, cl_pc, cl_out>>

lbVars == <<lb_fn, lb_sentences, lb_references, aggregation, is_test, lb_k, cr_rouges,
            tmp_rouges, engine_calls, encode_calls, lb_pc, lb_out>>

vars == <<evVars, rkVars, tbVars, clVars, lbVars>>

(***************************************************************************)
(* Bounds of the model                                                     *)
(***************************************************************************)
MaxRows == 5          \* rows of the flattened test stream
MaxLogit == 2         \* logits handed to get_scores on its own: 0..MaxLogit
MaxRankSents == 3     \* sentences handed to get_scores on its own
MaxTbSents == 3       \* sentences handed to trigram_blocking
MaxDs == 3            \* records of the shuffled source dataset
MaxSamples == 2       \* num_samples is drawn from 0..MaxSamples
MaxLbSents == 2       \* sentences handed to compute_rouges / compute_similarities
MaxRefs == 2          \* references handed to them

(***************************************************************************)
(* Python values                                                           *)
(***************************************************************************)
None == "<None>"
NL == "\n"

Take(s, n) == SubSeq(s, 1, IF Len(s) < n THEN Len(s) ELSE n)

RECURSIVE SumSeq(_)
SumSeq(s) == IF s = <<>> THEN 0 ELSE Head(s) + SumSeq(Tail(s))

\* str.split(sep) for a one-character separator
RECURSIVE split(_, _)
split(s, sep) ==
    IF \A i \in 1..Len(s) : s[i] # sep
    THEN <<s>>
    ELSE LET k == CHOOSE i \in 1..Len(s) : s[i] = sep /\ \A j \in 1..(i - 1) : s[j] # sep
         IN  <<SubSeq(s, 1, k - 1)>> \o split(SubSeq(s, k + 1, Len(s)), sep)

isspace(c) == c \in {" ", NL}
isalpha(c) == c \in {"w", "x", "y", "X", "Y", "C", "N"}
isdigit(c) == c = "9"

\* str.lower()
lower_char(c) == CASE c = "X" -> "x" [] c = "Y" -> "y" [] c = "C" -> "c" [] c = "N" -> "n"
                   [] OTHER -> c
lower(s) == [i \in 1..Len(s) |-> lower_char(s[i])]

\* str.split() without a separator: maximal runs of non-whitespace
RECURSIVE split_ws(_)
split_ws(s) ==
    IF s = <<>> THEN <<>>
    ELSE IF isspace(s[1]) THEN split_ws(Tail(s))
    ELSE LET ends == {i \in 1..Len(s) : isspace(s[i])}
             k == IF ends = {} THEN Len(s) + 1
                  ELSE CHOOSE i \in ends : \A j \in ends : i <= j
         IN  <<SubSeq(s, 1, k - 1)>> \o split_ws(SubSeq(s, k, Len(s)))

\* str.strip()
RECURSIVE lstrip(_)
lstrip(s) == IF s # <<>> /\ isspace(s[1]) THEN lstrip(Tail(s)) ELSE s
RECURSIVE rstrip(_)
rstrip(s) == IF s # <<>> /\ isspace(s[Len(s)]) THEN rstrip(SubSeq(s, 1, Len(s) - 1)) ELSE s
strip(s) == rstrip(lstrip(s))

\* str.replace(c, "") for a one-character c
remove_char(s, c) == SelectSeq(s, LAMBDA ch : ch # c)

\* str.find(sub) + 1: the first position where sub occurs, 0 if it does not
find(s, sub) ==
    LET hits == {k \in 1..(Len(s) - Len(sub) + 1) : SubSeq(s, k, k + Len(sub) - 1) = sub}
    IN  IF hits = {} THEN 0 ELSE CHOOSE k \in hits : \A j \in hits : k <= j

\* s.split(sub, 1) when sub occurs in s
split_once(s, sub) ==
    LET k == find(s, sub)
    IN  <<SubSeq(s, 1, k - 1), SubSeq(s, k + Len(sub), Len(s))>>

\* sep.join(parts)
RECURSIVE join(_, _)
join(sep, parts) ==
    IF parts = <<>> THEN <<>>
    ELSE IF Len(parts) = 1 THEN parts[1]
    ELSE parts[1] \o sep \o join(sep, Tail(parts))

(***************************************************************************)
(* ScoreDict: {"rouge-1","rouge-2","rouge-l"} -> {"f","p","r"} -> value    *)
(***************************************************************************)
keys == <<"rouge-1", "rouge-2", "rouge-l">>
metrics == <<"f", "p", "r">>
KeySet == {keys[i] : i \in 1..Len(keys)}
MetricSet == {metrics[i] : i \in 1..Len(metrics)}

Uniform(v) == [k \in KeySet |-> [m \in MetricSet |-> v]]
ZeroDict == Uniform(0)
\* a ScoreDict with rouge-2 at b and rouge-1, rouge-l at a
MkDict(a, b) == [k \in KeySet |-> [m \in MetricSet |-> IF k = "rouge-2" THEN b ELSE a]]
\* the Python dict {}
EmptyDict == [k \in {} |-> 0]

\* a float kept as the quotient num / den
Rat(n, d) == [num |-> n, den |-> d]

RECURSIVE ProdSeq(_)
ProdSeq(s) == IF s = <<>> THEN 1 ELSE Head(s) * ProdSeq(Tail(s))
Without(s, k) == SubSeq(s, 1, k - 1) \o SubSeq(s, k + 1, Len(s))

(***************************************************************************)
(* utils.get_scores: the relevance model returns one logit per sentence    *)
(* (shape N x 1); squeeze() drops every dimension of size 1, so for N = 1  *)
(* tolist() is a float and len(scores) raises TypeError.                   *)
(***************************************************************************)
squeeze_tolist(logits) ==
    IF Len(logits) = 1
    THEN [kind |-> "float", val |-> logits[1]]
    ELSE [kind |-> "list", val |-> logits]

\* One step of the stable descending sort: index i goes after every index
\* already placed whose key is >= scores[i].
InsertDescUnstable(idx, i, scores) ==
    LET before == {p \in 1..Len(idx) : scores[idx[p]] > scores[i]}
        n == Cardinality(before)
    IN  SubSeq(idx, 1, n) \o <<i>> \o SubSeq(idx, n + 1, Len(idx))

InsertDesc(idx, i, scores) ==
    LET before == {p \in 1..Len(idx) : scores[idx[p]] >= scores[i]}
        n == Cardinality(before)
    IN  SubSeq(idx, 1, n) \o <<i>> \o SubSeq(idx, n + 1, Len(idx))

\* sorted(range(len(scores)), key=lambda i: scores[i], reverse=True)
RECURSIVE sorted_indices(_, _)
sorted_indices(scores, n) ==
    IF n = 0 THEN <<>> ELSE InsertDesc(sorted_indices(scores, n - 1), n, scores)

get_scores(sentences, logits) ==
    LET scores == squeeze_tolist(logits)
    IN  IF scores.kind = "float"
        THEN [raised |-> "TypeError", sorted_sentences |-> <<>>, sorted_scores |-> <<>>]
        ELSE LET idx == sorted_indices(scores.val, Len(scores.val))
             IN  [raised |-> None,
                  sorted_sentences |-> [p \in 1..Len(idx) |-> sentences[idx[p]]],
                  sorted_scores |-> [p \in 1..Len(idx) |-> scores.val[idx[p]]]]

(***************************************************************************)
(* test.compute_avg_dict: every leaf is sum(...) / len(dict_list); the     *)
(* quotient is kept as the pair [num, den].  len(dict_list) = 0 divides    *)
(* by zero.                                                                *)
(***************************************************************************)
compute_avg_dict_guarded(dict_list) ==
    IF Len(dict_list) = 0
    THEN [raised |-> None, value |-> [k \in KeySet |-> [m \in MetricSet |-> [num |-> 0, den |-> 1]]]]
    ELSE [raised |-> None,
          value |-> [k \in KeySet |-> [m \in MetricSet |->
                       [num |-> SumSeq([i \in 1..Len(dict_list) |-> dict_list[i][k][m]]),
                        den |-> Len(dict_list)]]]]

compute_avg_dict(dict_list) ==
    IF Len(dict_list) = 0
    THEN [raised |-> "ZeroDivisionError", value |-> None]
    ELSE [raised |-> None,
          value |-> [k \in KeySet |-> [m \in MetricSet |->
                       [num |-> SumSeq([i \in 1..Len(dict_list) |-> dict_list[i][k][m]]),
                        den |-> Len(dict_list)]]]]

\* np.mean over a non-empty list
np_mean(xs) == [num |-> SumSeq(xs), den |-> Len(xs)]

(***************************************************************************)
(* test.evaluate_model                                                     *)
(***************************************************************************)
num_highlight == 3

Contexts == {"A", "B"}
SentenceIds == {"s1", "s2"}
\* the highlights column: one string per article, highlights joined by newline
HighlightsText == [c \in Contexts |-> IF c = "A" THEN <<"p", NL, "q">> ELSE <<"r">>]
Rows == {[sentence |-> s, context |-> c, highlights |-> HighlightsText[c]] :
            s \in SentenceIds, c \in Contexts}

Logits == {0, 1}
\* what evaluate_article returns for one article: the averaged ScoreDict and
\* the mean similarity computed by compute_labels (an opaque scorer)
ArticleScores == {Uniform(v) : v \in {0, 1}}
ArticleSims == {0, 1}

EvIdle ==
    /\ dataset = <<>> /\ pos = 0 /\ current_context = None
    /\ current_article_sentences = <<>> /\ current_highlight = None
    /\ rouges = <<>> /\ similarities = <<>> /\ rank_calls = <<>>
    /\ article_calls = <<>> /\ ev_pc = "idle" /\ ev_out = None

EvInit ==
    /\ dataset \in UNION {[1..n -> Rows] : n \in 0..MaxRows}
    /\ pos = 0
    /\ current_context = None
    /\ current_article_sentences = <<>>
    /\ current_highlight = None
    /\ rouges = <<>>
    /\ similarities = <<>>
    /\ rank_calls = <<>>
    /\ article_calls = <<>>
    /\ ev_pc = "loop"
    /\ ev_out = None

\* Closing a group: get_scores on the accumulated sentences, evaluate_article on
\* the top num_highlight ranked sentences and highlights_gt, two appends.
\* Shared by the loop body (lines 31-34) and the code after the loop (46-49).
CloseGroup(highlights_gt, logits, rouge_dict, similarity) ==
    LET r == get_scores(current_article_sentences, logits)
    IN  /\ rank_calls' = Append(rank_calls,
                [sentences |-> current_article_sentences, context |-> current_context])
        /\ IF r.raised # None
           THEN /\ ev_pc' = "raised"
                /\ ev_out' = r.raised
                /\ UNCHANGED <<rouges, similarities, article_calls>>
           ELSE /\ article_calls' = Append(article_calls,
                        [highlights_pred |-> Take(r.sorted_sentences, num_highlight),
                         highlights_gt |-> highlights_gt])
                /\ rouges' = Append(rouges, rouge_dict)
                /\ similarities' = Append(similarities, similarity)

\* One iteration of `for example in dataset` (lines 22-42)
ProcessRow ==
    /\ ev_pc = "loop"
    /\ pos < Len(dataset)
    /\ LET example == dataset[pos + 1]
           sentence == example.sentence
           context == example.context
           highlights == split(example.highlights, NL)
       IN  IF context # current_context
           THEN IF current_context # None
                THEN \E logits \in [1..Len(current_article_sentences) -> Logits],
                        rouge_dict \in ArticleScores, similarity \in ArticleSims :
                        /\ CloseGroup(highlights, logits, rouge_dict, similarity)
                        /\ IF get_scores(current_article_sentences, logits).raised # None
                           THEN UNCHANGED <<pos, current_context, current_highlight,
                                            current_article_sentences>>
                           ELSE /\ current_context' = context
                                /\ current_highlight' = highlights
                                /\ current_article_sentences' = <<sentence>>
                                /\ pos' = pos + 1
                                /\ UNCHANGED <<ev_pc, ev_out>>
                ELSE /\ current_context' = context
                     /\ current_highlight' = highlights
                     /\ current_article_sentences' = <<sentence>>
                     /\ pos' = pos + 1
                     /\ UNCHANGED <<rouges, similarities, rank_calls, article_calls,
                                    ev_pc, ev_out>>
           ELSE /\ current_article_sentences' = Append(current_article_sentences, sentence)
                /\ pos' = pos + 1
                /\ UNCHANGED <<current_context, current_highlight, rouges, similarities,
                               rank_calls, article_calls, ev_pc, ev_out>>
    /\ UNCHANGED dataset

\* After the loop (lines 44-51): close the last group, then aggregate.
Finish ==
    /\ ev_pc = "loop"
    /\ pos = Len(dataset)
    /\ IF current_context # None
       THEN \E logits \in [1..Len(current_article_sentences) -> Logits],
               rouge_dict \in ArticleScores, similarity \in ArticleSims :
               /\ CloseGroup(current_highlight, logits, rouge_dict, similarity)
               /\ IF get_scores(current_article_sentences, logits).raised = None
                  THEN LET avg == compute_avg_dict(rouges')
                       IN  IF avg.raised # None
                           THEN ev_pc' = "raised" /\ ev_out' = avg.raised
                           ELSE /\ ev_pc' = "returned"
                                /\ ev_out' = <<avg.value, np_mean(similarities')>>
                  ELSE TRUE
       ELSE LET avg == compute_avg_dict(rouges)
            IN  /\ IF avg.raised # None
                   THEN ev_pc' = "raised" /\ ev_out' = avg.raised
                   ELSE /\ ev_pc' = "returned"
                        /\ ev_out' = <<avg.value, np_mean(similarities)>>
                /\ UNCHANGED <<rouges, similarities, rank_calls, article_calls>>
    /\ UNCHANGED <<dataset, pos, current_context, current_highlight,
                   current_article_sentences>>

\* Maximal runs of consecutive rows with an identical context, as row indices
RECURSIVE RunsUpTo(_, _)
RunsUpTo(rows, n) ==
    IF n = 0 THEN <<>>
    ELSE LET prev == RunsUpTo(rows, n - 1)
         IN  IF n > 1 /\ rows[n].context = rows[n - 1].context
             THEN [prev EXCEPT ![Len(prev)] = Append(@, n)]
             ELSE Append(prev, <<n>>)
Runs(rows) == RunsUpTo(rows, Len(rows))

EvEnded == ev_pc \in {"returned", "raised"}

(***************************************************************************)
(* get_scores on its own                                                   *)
(***************************************************************************)
RankSentences == {"a", "b", "c"}
RankLogits == 0..MaxLogit

RkIdle == rk_sentences = <<>> /\ rk_logits = <<>> /\ rk_out = None /\ rk_pc = "idle"

RkInit ==
    /\ \E n \in 1..MaxRankSents :
          /\ rk_sentences \in [1..n -> RankSentences]
          /\ rk_logits \in [1..n -> RankLogits]
    /\ rk_out = None
    /\ rk_pc = "call"

RkCall ==
    /\ rk_pc = "call"
    /\ rk_out' = get_scores(rk_sentences, rk_logits)
    /\ rk_pc' = "done"
    /\ UNCHANGED <<rk_sentences, rk_logits>>

(***************************************************************************)
(* utils.trigram_blocking                                                  *)
(***************************************************************************)
\* nltk.ngrams(words, n)
ngrams(words, n) == [i \in 1..(Len(words) - n + 1) |-> SubSeq(words, i, i + n - 1)]

\* set(ngrams(sentence.lower().split(), 3))
sentence_trigrams(sentence) ==
    LET g == ngrams(split_ws(lower(sentence)), 3)
    IN  {g[i] : i \in 1..Len(g)}

tb_update_forgets(trigrams_summary, trigrams) == trigrams_summary

\* trigrams_summary.update(sentence_trigrams)
tb_update(trigrams_summary, trigrams) == trigrams_summary \cup trigrams

\* the loop of trigram_blocking from sentence k on
RECURSIVE tb_loop(_, _, _, _)
tb_loop(sentences, k, summary, trigrams_summary) ==
    IF k > Len(sentences) THEN summary
    ELSE LET trigrams == sentence_trigrams(sentences[k])
         IN  IF trigrams_summary \cap trigrams = {}
             THEN tb_loop(sentences, k + 1, Append(summary, sentences[k]),
                          tb_update(trigrams_summary, trigrams))
             ELSE tb_loop(sentences, k + 1, summary, trigrams_summary)

trigram_blocking(sentences) == tb_loop(sentences, 1, <<>>, {})

Words(ws) == join(<<" ">>, [i \in 1..Len(ws) |-> <<ws[i]>>])
TbSentences ==
    {Words(ws) : ws \in [1..3 -> {"x", "y"}]}
    \cup {Words(<<"x">> \o ws) : ws \in [1..3 -> {"x", "y"}]}
    \cup {<<>>, Words(<<"x", "y">>), Words(<<"X", "x", "x">>), Words(<<"X", "Y", "x">>),
          Words(<<"y", "X", "Y", "x">>), <<" ", "x", " ", " ", "y", NL, "x", " ">>}

\* the text of the sentences evaluate_model reads from its rows
SentenceText ==
    [s \in SentenceIds |->
        IF s = "s1" THEN Words(<<"x", "y", "x">>) ELSE Words(<<"y", "X", "Y", "x">>)]

TbIdle == tb_sentences = <<>> /\ tb_out = None /\ tb_pc = "idle"

TbInit ==
    /\ tb_sentences \in UNION {[1..n -> TbSentences] : n \in 0..MaxTbSents}
    /\ tb_out = None
    /\ tb_pc = "call"

TbCall ==
    /\ tb_pc = "call"
    /\ tb_out' = trigram_blocking(tb_sentences)
    /\ tb_pc' = "done"
    /\ UNCHANGED tb_sentences

(***************************************************************************)
(* utils.clean_dataset                                                     *)
(***************************************************************************)
before_th == 40
min_article_len == 300

\* line 55: more than 3 space-separated tokens and an alphabetic character
keep_highlight(text) ==
    /\ Len(split(text, " ")) > 3
    /\ \E k \in 1..Len(text) : isalpha(text[k])

clean_highlight_text_keeps_newline(text) == strip(text)

\* line 59: current_h.text.replace("\n", "").strip()
clean_highlight_text(text) == strip(remove_char(text, NL))

\* lines 51-59: the loop over highlights.sents from sentence k on
RECURSIVE clean_highlights(_, _, _, _)
clean_highlights(sents, k, cleaned_high, n_highlight) ==
    IF k > Len(sents)
    THEN [cleaned_high |-> cleaned_high, n_highlight |-> n_highlight]
    ELSE IF keep_highlight(sents[k])
         THEN clean_highlights(sents, k + 1,
                  (IF cleaned_high # <<>> THEN cleaned_high \o <<NL>> ELSE cleaned_high)
                      \o clean_highlight_text(sents[k]),
                  n_highlight + 1)
         ELSE clean_highlights(sents, k + 1, cleaned_high, n_highlight)

highlight_count_ok_no_minimum(n_highlight) == n_highlight <= 5

\* line 61
highlight_count_ok(n_highlight) == 3 <= n_highlight /\ n_highlight <= 5

\* lines 67-78: drop a short prefix that ends with marker
strip_prefix(article, marker) ==
    IF find(article, marker) # 0
    THEN LET parts == split_once(article, marker)
         IN  IF Len(parts[1]) <= before_th THEN parts[2] ELSE article
    ELSE article

\* line 83: the words of a segment that hold no digit
words_without_digit(segment) ==
    SelectSeq(split_ws(segment), LAMBDA word : ~ \E k \in 1..Len(word) : isdigit(word[k]))

\* lines 81-89: start the article at the first segment with more than 2 such words
trim_leading_segments(article) ==
    LET splits == split(article, ".")
        good == {j \in 1..Len(splits) : ~(Len(words_without_digit(splits[j])) <= 2)}
    IN  IF good = {} THEN article
        ELSE LET j == CHOOSE a \in good : \A b \in good : a <= b
             IN  strip(join(<<".">>, SubSeq(splits, j, Len(splits))))

clean_article(article) ==
    trim_leading_segments(strip_prefix(strip_prefix(article, <<"-", "-">>),
                                       <<"(", "C", "N", "N", ")">>))

\* line 94
article_too_short(article) == Len(article) < min_article_len

\* lines 48-98 for one data point: whether it is appended, and as what
clean_point(data_point) ==
    LET h == clean_highlights(data_point.sents, 1, <<>>, 0)
        article == clean_article(data_point.article)
    IN  IF ~highlight_count_ok(h.n_highlight)
        THEN [accepted |-> FALSE, data_point |-> None]
        ELSE IF article_too_short(article)
        THEN [accepted |-> FALSE, data_point |-> None]
        ELSE [accepted |-> TRUE,
              data_point |-> [article |-> article, highlights |-> h.cleaned_high]]

loop_continues_inclusive(n, target) == n <= target

\* line 43
loop_continues(n, target) == n < target

\* The raw records of the source.  sents is what the sentence splitter makes
\* of the highlights string.
Rep(c, n) == [k \in 1..n |-> c]
Body(n) == <<"w", " ", "w", " ">> \o Rep("w", n - 4)
G(c) == <<c, " ", c, " ", c, " ", c>>
ShortHighlight == <<"w", " ", "w", " ", "w">>
DigitHighlight == <<"9", " ", "9", " ", "9", " ", "9">>
NewlineHighlight == <<" ", "w", " ", "w", NL, "w", " ", "w", " ">>
H2 == <<G("w"), G("x")>>
H3 == <<G("w"), G("x"), G("y")>>
H3x == <<G("w"), ShortHighlight, NewlineHighlight, DigitHighlight, G("y")>>
H5 == <<G("w"), G("x"), G("y"), G("X"), G("Y")>>
H5x == <<G("w"), G("x"), ShortHighlight, G("y"), G("X"), G("Y")>>
H6 == <<G("w"), G("x"), G("y"), G("X"), G("Y"), G("C")>>
RawRecords == <<
    [sents |-> H3,  article |-> Body(min_article_len)],
    [sents |-> H5x, article |-> <<"w", " ", "-", "-">> \o Body(min_article_len)],
    [sents |-> H2,  article |-> Body(min_article_len)],
    [sents |-> H6,  article |-> Body(min_article_len)],
    [sents |-> H3,  article |-> <<"w", " ", "-", "-">> \o Body(min_article_len - 1)],
    [sents |-> H3x, article |-> <<"w", " ", "9", ".", " ", "w", " ", "w", ".">>
                                   \o Body(min_article_len)],
    [sents |-> H5,  article |-> <<"(", "C", "N", "N", ")", " ">> \o Body(min_article_len - 1)],
    [sents |-> H3,  article |-> Rep("w", before_th + 1) \o <<"-", "-">>
                                   \o Body(min_article_len)] >>
RecordIds == 1..Len(RawRecords)
\* the cleaning of a data point depends on the data point alone: tabulated
CleanedPoints == [id \in RecordIds |-> clean_point(RawRecords[id])]

ClIdle ==
    /\ ds = <<>> /\ num_samples = 0 /\ cl_i = -1 /\ cleaned_ds = <<>>
    /\ cl_taken = <<>> /\ cl_pc = "idle" /\ cl_out = None

\* ds is the shuffled dataset (line 35), as record ids
ClInit ==
    /\ ds \in UNION {[1..n -> RecordIds] : n \in 0..MaxDs}
    /\ num_samples \in 0..MaxSamples
    /\ cl_i = -1
    /\ cleaned_ds = <<>>
    /\ cl_taken = <<>>
    /\ cl_pc = "loop"
    /\ cl_out = None

\* One iteration of the while loop (lines 43-98); ds[cl_i] past the end raises
\* IndexError.  cl_taken records the index of every appended record.
CleanStep ==
    /\ cl_pc = "loop"
    /\ loop_continues(Len(cleaned_ds), num_samples)
    /\ cl_i' = cl_i + 1
    /\ IF cl_i' >= Len(ds)
       THEN /\ cl_pc' = "raised"
            /\ cl_out' = "IndexError"
            /\ UNCHANGED <<cleaned_ds, cl_taken>>
       ELSE LET r == CleanedPoints[ds[cl_i' + 1]]
            IN  /\ IF r.accepted
                   THEN /\ cleaned_ds' = Append(cleaned_ds, r.data_point)
                        /\ cl_taken' = Append(cl_taken, cl_i')
                   ELSE UNCHANGED <<cleaned_ds, cl_taken>>
                /\ UNCHANGED <<cl_pc, cl_out>>
    /\ UNCHANGED <<ds, num_samples>>

\* line 100
CleanReturn ==
    /\ cl_pc = "loop"
    /\ ~loop_continues(Len(cleaned_ds), num_samples)
    /\ cl_pc' = "returned"
    /\ cl_out' = cleaned_ds
    /\ UNCHANGED <<ds, num_samples, cl_i, cleaned_ds, cl_taken>>

(***************************************************************************)
(* utils.compute_rouges, utils.aggregate_test_scores                       *)
(***************************************************************************)
Aggregations == {"max", "average", "harmonic", "median"}

\* lines 180-188: the reducer, or the ValueError of an unknown identifier
aggregation_known(agg) == agg \in {"max", "average", "harmonic"}

\* aggregate_f(x) for a list x of non-negative numbers
aggregate_f(agg, x) ==
    CASE agg = "max" ->
            IF x = <<>> THEN [raised |-> "ValueError", value |-> None]
            ELSE [raised |-> None,
                  value |-> Rat(CHOOSE v \in {x[j] : j \in 1..Len(x)} :
                                    \A j \in 1..Len(x) : x[j] <= v, 1)]
      [] agg = "average" ->
            IF x = <<>> THEN [raised |-> "ZeroDivisionError", value |-> None]
            ELSE [raised |-> None, value |-> Rat(SumSeq(x), Len(x))]
      [] agg = "harmonic" ->
            IF x = <<>> \/ \E j \in 1..Len(x) : x[j] < 0
            THEN [raised |-> "StatisticsError", value |-> None]
            ELSE IF \E j \in 1..Len(x) : x[j] = 0
            THEN [raised |-> None, value |-> Rat(0, 1)]
            ELSE [raised |-> None,
                  value |-> Rat(Len(x) * ProdSeq(x),
                                SumSeq([j \in 1..Len(x) |-> ProdSeq(Without(x, j))]))]

is_degenerate_blank_only(sentence) == strip(sentence) = <<>>

\* line 193: not sentence.strip() or not any(char.isalpha() for char in sentence)
is_degenerate(sentence) ==
    \/ strip(sentence) = <<>>
    \/ ~ \E k \in 1..Len(sentence) : isalpha(sentence[k])

replaces_best_strict(rouge_2_f, max_rouge_2_f) == rouge_2_f > max_rouge_2_f

\* line 292
replaces_best(rouge_2_f, max_rouge_2_f) == rouge_2_f >= max_rouge_2_f

\* lines 290-294: the loop of aggregate_test_scores from dictionary k on
RECURSIVE ats_loop(_, _, _, _)
ats_loop(scores, k, max_rouge_2_f, best_dict) ==
    IF k > Len(scores) THEN best_dict
    ELSE LET rouge_2_f == scores[k]["rouge-2"]["f"]
         IN  IF replaces_best(rouge_2_f, max_rouge_2_f)
             THEN ats_loop(scores, k + 1, rouge_2_f, scores[k])
             ELSE ats_loop(scores, k + 1, max_rouge_2_f, best_dict)

aggregate_test_scores(scores) == ats_loop(scores, 1, 0, EmptyDict)

\* what rouge_model.get_scores(sentence, reference)[0] may do: a ScoreDict, or
\* an exception on input it cannot score
EngineDicts == {MkDict(a, b) : a, b \in {0, 1}}
EngineOutcomes ==
    {[raised |-> FALSE, value |-> d] : d \in EngineDicts}
        \cup {[raised |-> TRUE, value |-> EmptyDict]}

rouge_score_of_substitutes_one(outcome, test) ==
    IF test
    THEN IF outcome.raised THEN Uniform(1) ELSE outcome.value
    ELSE IF outcome.raised THEN 1 ELSE outcome.value["rouge-2"]["f"]

\* lines 205-228 for one reference
rouge_score_of(outcome, test) ==
    IF test
    THEN IF outcome.raised THEN ZeroDict ELSE outcome.value
    ELSE IF outcome.raised THEN 0 ELSE outcome.value["rouge-2"]["f"]

LbSentences == {<<>>, <<" ">>, <<"9">>, <<"w">>}
SentenceLists(lo) == UNION {[1..n -> LbSentences] : n \in lo..MaxLbSents}
ReferenceLists(lo) == {[j \in 1..n |-> j] : n \in lo..MaxRefs}

LbIdle ==
    /\ lb_fn = None /\ lb_sentences = <<>> /\ lb_references = <<>> /\ aggregation = None
    /\ is_test = FALSE /\ lb_k = 0 /\ cr_rouges = <<>> /\ tmp_rouges = <<>>
    /\ engine_calls = <<>> /\ encode_calls = <<>> /\ lb_pc = "idle" /\ lb_out = None

\* compute_similarities is given non-empty lists: what the encoder and the
\* tensor reductions do with an empty one is the library's business
LbInit ==
    /\ lb_fn \in {"compute_rouges", "compute_similarities"}
    /\ IF lb_fn = "compute_rouges"
       THEN /\ lb_sentences \in SentenceLists(0)
            /\ lb_references \in ReferenceLists(0)
            /\ is_test \in BOOLEAN
       ELSE /\ lb_sentences \in SentenceLists(1)
            /\ lb_references \in ReferenceLists(1)
            /\ is_test = FALSE
    /\ aggregation \in Aggregations
    /\ lb_k = 0
    /\ cr_rouges = <<>>
    /\ tmp_rouges = <<>>
    /\ engine_calls = <<>>
    /\ encode_calls = <<>>
    /\ lb_pc = "call"
    /\ lb_out = None

\* compute_rouges, lines 177-188
RougesEnter ==
    /\ lb_pc = "call"
    /\ lb_fn = "compute_rouges"
    /\ IF aggregation_known(aggregation)
       THEN lb_pc' = "loop" /\ lb_out' = lb_out
       ELSE lb_pc' = "raised" /\ lb_out' = "ValueError"
    /\ UNCHANGED <<lb_fn, lb_sentences, lb_references, aggregation, is_test, lb_k,
                   cr_rouges, tmp_rouges, engine_calls, encode_calls>>

\* compute_rouges, one iteration of `for sentence in sentences` (lines 190-237)
RougesSentence ==
    /\ lb_pc = "loop"
    /\ lb_k < Len(lb_sentences)
    /\ lb_k' = lb_k + 1
    /\ LET sentence == lb_sentences[lb_k + 1]
       IN  IF is_degenerate(sentence)
           THEN /\ tmp_rouges' = <<>>
                /\ cr_rouges' = Append(cr_rouges, IF is_test THEN ZeroDict ELSE Rat(0, 1))
                /\ UNCHANGED <<engine_calls, lb_pc, lb_out>>
           ELSE \E outcomes \in [1..Len(lb_references) -> EngineOutcomes] :
                /\ tmp_rouges' = [r \in 1..Len(lb_references) |->
                                     rouge_score_of(outcomes[r], is_test)]
                /\ engine_calls' = engine_calls \o
                        [r \in 1..Len(lb_references) |->
                            [sentence |-> lb_k + 1, reference |-> lb_references[r],
                             raised |-> outcomes[r].raised]]
                /\ IF is_test
                   THEN /\ cr_rouges' = Append(cr_rouges, aggregate_test_scores(tmp_rouges'))
                        /\ UNCHANGED <<lb_pc, lb_out>>
                   ELSE LET a == aggregate_f(aggregation, tmp_rouges')
                        IN  IF a.raised # None
                            THEN /\ lb_pc' = "raised"
                                 /\ lb_out' = a.raised
                                 /\ UNCHANGED cr_rouges
                            ELSE /\ cr_rouges' = Append(cr_rouges, a.value)
                                 /\ UNCHANGED <<lb_pc, lb_out>>
    /\ UNCHANGED <<lb_fn, lb_sentences, lb_references, aggregation, is_test, encode_calls>>

\* compute_rouges, line 238
RougesReturn ==
    /\ lb_pc = "loop"
    /\ lb_k = Len(lb_sentences)
    /\ lb_pc' = "returned"
    /\ lb_out' = cr_rouges
    /\ UNCHANGED <<lb_fn, lb_sentences, lb_references, aggregation, is_test, lb_k,
                   cr_rouges, tmp_rouges, engine_calls, encode_calls>>

(***************************************************************************)
(* utils.compute_similarities                                              *)
(***************************************************************************)
Cosines == {0, 1}

\* lines 247-255 for one row of the cosine matrix
reduce_row(agg, row) ==
    CASE agg = "max" ->
            Rat(CHOOSE v \in {row[j] : j \in 1..Len(row)} : \A j \in 1..Len(row) : row[j] <= v, 1)
      [] agg = "average" -> Rat(SumSeq(row), Len(row))
      [] agg = "harmonic" ->
            IF \E j \in 1..Len(row) : row[j] = 0 THEN Rat(0, 1)
            ELSE Rat(Len(row) * ProdSeq(row),
                     SumSeq([j \in 1..Len(row) |-> ProdSeq(Without(row, j))]))

\* The whole call: both encode calls and cos_sim come first (lines 242-245),
\* the aggregation identifier is looked at after them (lines 247-255).
Similarities ==
    /\ lb_pc = "call"
    /\ lb_fn = "compute_similarities"
    /\ encode_calls' = <<lb_sentences, lb_references>>
    /\ \E cosine_scores \in [1..Len(lb_sentences) -> [1..Len(lb_references) -> Cosines]] :
          IF aggregation_known(aggregation)
          THEN /\ lb_pc' = "returned"
               /\ lb_out' = [s \in 1..Len(lb_sentences) |->
                                 reduce_row(aggregation, cosine_scores[s])]
          ELSE /\ lb_pc' = "raised"
               /\ lb_out' = "ValueError"
    /\ UNCHANGED <<lb_fn, lb_sentences, lb_references, aggregation, is_test, lb_k,
                   cr_rouges, tmp_rouges, engine_calls>>

(***************************************************************************)
(* Specifications                                                          *)
(***************************************************************************)
Init == EvInit /\ RkIdle /\ TbIdle /\ ClIdle /\ LbIdle
EvaluateRow == ProcessRow /\ UNCHANGED <<rkVars, tbVars, clVars, lbVars>>
EvaluateEnd == Finish /\ UNCHANGED <<rkVars, tbVars, clVars, lbVars>>
Next == EvaluateRow \/ EvaluateEnd
Spec == Init /\ [][Next]_vars

InitRank == RkInit /\ EvIdle /\ TbIdle /\ ClIdle /\ LbIdle
NextRank == RkCall /\ UNCHANGED <<evVars, tbVars, clVars, lbVars>>
SpecRank == InitRank /\ [][NextRank]_vars

InitTrigram == TbInit /\ EvIdle /\ RkIdle /\ ClIdle /\ LbIdle
NextTrigram == TbCall /\ UNCHANGED <<evVars, rkVars, clVars, lbVars>>
SpecTrigram == InitTrigram /\ [][NextTrigram]_vars

InitClean == ClInit /\ EvIdle /\ RkIdle /\ TbIdle /\ LbIdle
CleanLoop == CleanStep /\ UNCHANGED <<evVars, rkVars, tbVars, lbVars>>
CleanEnd == CleanReturn /\ UNCHANGED <<evVars, rkVars, tbVars, lbVars>>
NextClean == CleanLoop \/ CleanEnd
SpecClean == InitClean /\ [][NextClean]_vars

InitLabel == LbInit /\ EvIdle /\ RkIdle /\ TbIdle /\ ClIdle
LabelRougesEnter == RougesEnter /\ UNCHANGED <<evVars, rkVars, tbVars, clVars>>
LabelRougesSentence == RougesSentence /\ UNCHANGED <<evVars, rkVars, tbVars, clVars>>
LabelRougesReturn == RougesReturn /\ UNCHANGED <<evVars, rkVars, tbVars, clVars>>
LabelSimilarities == Similarities /\ UNCHANGED <<evVars, rkVars, tbVars, clVars>>
NextLabel == LabelRougesEnter \/ LabelRougesSentence \/ LabelRougesReturn \/ LabelSimilarities
SpecLabel == InitLabel /\ [][NextLabel]_vars

(***************************************************************************)
(* Claims                                                                  *)
(***************************************************************************)

\* C1: when evaluate_model has ended, it has emitted exactly one (ScoreDict,
\* similarity) result per maximal run of consecutive rows with an identical
\* context, in stream order, and the sentences ranked for a run are exactly
\* that run's sentences in stream order (the last run included).
C1_OneResultPerRun ==
    EvEnded =>
        LET runs == Runs(dataset)
        IN  /\ Len(rouges) = Len(runs)
            /\ Len(similarities) = Len(runs)
            /\ rank_calls = [k \in 1..Len(runs) |->
                    [sentences |-> [j \in 1..Len(runs[k]) |-> dataset[runs[k][j]].sentence],
                     context |-> dataset[runs[k][1]].context]]

\* C2: every group that evaluate_model closes is scored against the
\* reference highlights of that same group, never against the highlights of
\* the row that opened the next group.
C2_ScoredAgainstOwnHighlights ==
    \A k \in 1..Len(article_calls) :
        article_calls[k].highlights_gt = split(dataset[Runs(dataset)[k][1]].highlights, NL)

\* C9: on an empty stream evaluate_model emits zero groups and never returns
\* a result: the final compute_avg_dict over zero ScoreDicts raises
\* ZeroDivisionError.
C9_EmptyStreamDividesByZero ==
    dataset = <<>> =>
        /\ rouges = <<>> /\ similarities = <<>> /\ rank_calls = <<>>
        /\ ev_pc # "returned"
        /\ (ev_pc = "raised" => ev_out = "ZeroDivisionError")
        /\ (ev_pc = "loop" => ENABLED Finish)

C9_Witness == dataset = <<>> /\ ev_pc = "raised" /\ ev_out = "ZeroDivisionError"

\* C4: for two or more sentences get_scores returns two parallel sequences
\* that are a permutation of the input (sentence, score) pairs, ordered by
\* score descending, equal scores in their original input order.
C4_StableDescendingPermutation ==
    (rk_pc = "done" /\ Len(rk_sentences) >= 2) =>
        /\ rk_out.raised = None
        /\ Len(rk_out.sorted_sentences) = Len(rk_sentences)
        /\ Len(rk_out.sorted_scores) = Len(rk_sentences)
        /\ \E pi \in [1..Len(rk_sentences) -> 1..Len(rk_sentences)] :
              /\ \A p, q \in 1..Len(rk_sentences) : p # q => pi[p] # pi[q]
              /\ \A p \in 1..Len(rk_sentences) :
                    /\ rk_out.sorted_sentences[p] = rk_sentences[pi[p]]
                    /\ rk_out.sorted_scores[p] = rk_logits[pi[p]]
              /\ \A p, q \in 1..Len(rk_sentences) :
                    p < q => \/ rk_logits[pi[p]] > rk_logits[pi[q]]
                             \/ (rk_logits[pi[p]] = rk_logits[pi[q]] /\ pi[p] < pi[q])

\* scores [0.2, 0.9, 0.5] for [a, b, c], in units where they are 0, 2, 1
C4_Witness ==
    /\ rk_pc = "done"
    /\ rk_sentences = <<"a", "b", "c">>
    /\ rk_logits = <<0, 2, 1>>
    /\ rk_out.sorted_sentences = <<"b", "c", "a">>
    /\ rk_out.sorted_scores = <<2, 1, 0>>

\* C3: the output of trigram_blocking is a subsequence of its input in the
\* same relative order, and no two output sentences share a lower-cased word
\* trigram.
SharesTrigram(s, t) ==
    LET ws == split_ws(lower(s))
        wt == split_ws(lower(t))
    IN  \E i \in 1..(Len(ws) - 2), j \in 1..(Len(wt) - 2) :
            SubSeq(ws, i, i + 2) = SubSeq(wt, j, j + 2)

IsSubsequence(a, b) ==
    \E f \in [1..Len(a) -> 1..Len(b)] :
        /\ \A p, q \in 1..Len(a) : p < q => f[p] < f[q]
        /\ \A p \in 1..Len(a) : a[p] = b[f[p]]

C3_SubsequenceWithoutSharedTrigram ==
    tb_pc = "done" =>
        /\ IsSubsequence(tb_out, tb_sentences)
        /\ \A p, q \in 1..Len(tb_out) : p < q => ~SharesTrigram(tb_out[p], tb_out[q])

C3_Witness ==
    /\ tb_pc = "done"
    /\ tb_sentences = <<Words(<<"x", "y", "x">>), Words(<<"y", "X", "Y", "x">>),
                        Words(<<"y", "y", "y">>)>>
    /\ tb_out = <<Words(<<"x", "y", "x">>), Words(<<"y", "y", "y">>)>>

\* C5: every record clean_dataset appends has between 3 and 5 kept highlights
\* and a cleaned article of at least 300 characters; a visited record failing
\* either filter is never appended.
KeptCount(sents) == Cardinality({k \in 1..Len(sents) : keep_highlight(sents[k])})
Passing ==
    {id \in RecordIds : /\ KeptCount(RawRecords[id].sents) \in 3..5
                        /\ Len(clean_article(RawRecords[id].article)) >= 300}
PassesFilters(id) == id \in Passing
CleanArticles == [id \in RecordIds |-> clean_article(RawRecords[id].article)]
KeptCounts == [id \in RecordIds |-> KeptCount(RawRecords[id].sents)]
TakenSet == {cl_taken[k] : k \in 1..Len(cl_taken)}
Visited == {j \in 0..cl_i : j < Len(ds)}

C5_AppendedRecordsPassFilters ==
    /\ Len(cl_taken) = Len(cleaned_ds)
    /\ \A k \in 1..Len(cleaned_ds) :
          /\ cl_taken[k] \in Visited
          /\ KeptCounts[ds[cl_taken[k] + 1]] \in 3..5
          /\ Len(cleaned_ds[k].article) >= 300
    /\ \A j \in Visited : ~PassesFilters(ds[j + 1]) => j \notin TakenSet

\* appended: 3 of 5 highlights kept and a byline removed; skipped: an article
\* of 300 characters and more before cleaning, 299 after
C5_Witness ==
    /\ cl_pc = "returned"
    /\ ds = <<5, 7, 6>>
    /\ cl_taken = <<2>>
    /\ Len(cleaned_ds[1].article) = 300
    /\ Len(RawRecords[5].article) > 300

\* C6: clean_dataset visits the shuffled records in order, each at most once,
\* and ends: either it returns exactly num_samples accepted records, the first
\* num_samples that pass the filters in shuffle order, or it fails with
\* IndexError after the source is exhausted with fewer than num_samples
\* accepted; it never returns a shorter result.  It cannot loop forever: every
\* step that does not end it moves the index cl_i forward by one, and while it
\* has not ended cl_i stays below Len(ds).
PassingIn(js) == {j \in js : PassesFilters(ds[j + 1])}
C6_State ==
    /\ cl_i <= Len(ds)
    /\ cl_pc = "loop" => cl_i < Len(ds)
    /\ TakenSet = PassingIn(Visited)
    /\ \A p, q \in 1..Len(cl_taken) : p < q => cl_taken[p] < cl_taken[q]
    /\ \A k \in 1..Len(cleaned_ds) :
          cleaned_ds[k].article = CleanArticles[ds[cl_taken[k] + 1]]
    /\ cl_pc = "returned" =>
          /\ cl_out = cleaned_ds
          /\ Len(cleaned_ds) = num_samples
          /\ num_samples > 0 => cl_taken[num_samples] = cl_i
    /\ cl_pc = "raised" =>
          /\ cl_out = "IndexError"
          /\ cl_i = Len(ds)
          /\ Cardinality(PassingIn(0..(Len(ds) - 1))) < num_samples
C6_TerminatesWithExactlyNumSamples ==
    /\ []C6_State
    /\ [][cl_i' = cl_i + 1 \/ (cl_i' = cl_i /\ cl_pc' = "returned")]_clVars

C6_Witness ==
    /\ cl_pc = "returned" /\ num_samples = 2 /\ ds = <<3, 1, 8>> /\ cl_taken = <<1, 2>>

C6_WitnessExhausted ==
    /\ cl_pc = "raised" /\ num_samples = 2 /\ ds = <<1, 4, 5>> /\ Len(cleaned_ds) = 1

\* C7: in compute_rouges a candidate that is empty, whitespace only or without
\* an alphabetic character gets 0.0 in train mode and the all-zero ScoreDict in
\* test mode, and the ROUGE engine is never called for it.
Blank(sentence) == \A k \in 1..Len(sentence) : isspace(sentence[k])
NoAlpha(sentence) == \A k \in 1..Len(sentence) : ~isalpha(sentence[k])

C7_DegenerateCandidateShortCircuits ==
    lb_fn = "compute_rouges" =>
        /\ \A j \in 1..Len(cr_rouges) :
              (Blank(lb_sentences[j]) \/ NoAlpha(lb_sentences[j])) =>
                  cr_rouges[j] = (IF is_test THEN ZeroDict ELSE Rat(0, 1))
        /\ \A c \in 1..Len(engine_calls) :
              ~(Blank(lb_sentences[engine_calls[c].sentence])
                  \/ NoAlpha(lb_sentences[engine_calls[c].sentence]))

C7_Witness ==
    /\ lb_fn = "compute_rouges" /\ lb_pc = "returned" /\ is_test
    /\ lb_sentences = <<<<"9">>, <<"w">>>>
    /\ lb_out[1] = ZeroDict
    /\ lb_out[2] = MkDict(1, 1)
    /\ engine_calls = <<[sentence |-> 2, reference |-> 1, raised |-> FALSE],
                        [sentence |-> 2, reference |-> 2, raised |-> FALSE]>>

\* C8: in test mode, for a non-empty list of per-reference ScoreDicts, the
\* aggregate is the whole ScoreDict of the reference with the highest rouge-2
\* f, the latest such reference on ties; its rouge-1 and rouge-l are those of
\* that reference.
LatestBest(scores) ==
    CHOOSE r \in 1..Len(scores) :
        /\ \A q \in 1..Len(scores) : scores[q]["rouge-2"]["f"] <= scores[r]["rouge-2"]["f"]
        /\ \A q \in (r + 1)..Len(scores) : scores[q]["rouge-2"]["f"] < scores[r]["rouge-2"]["f"]

C8_TestAggregateIsLatestBestRouge2 ==
    (lb_fn = "compute_rouges" /\ is_test /\ tmp_rouges # <<>>) =>
        cr_rouges[Len(cr_rouges)] = tmp_rouges[LatestBest(tmp_rouges)]

\* a tie on rouge-2: the later reference wins although its rouge-1 is lower
C8_Witness ==
    /\ lb_fn = "compute_rouges" /\ is_test
    /\ tmp_rouges = <<MkDict(1, 1), MkDict(0, 1)>>
    /\ cr_rouges[Len(cr_rouges)] = MkDict(0, 1)

\* C10: an aggregation identifier other than max, average, harmonic makes
\* compute_rouges and compute_similarities fail with ValueError for every
\* input, before any overlap or embedding computation is performed.
C10_UnknownAggregationFailsFirst ==
    (lb_pc \in {"returned", "raised"} /\ aggregation \notin {"max", "average", "harmonic"}) =>
        /\ lb_pc = "raised"
        /\ lb_out = "ValueError"
        /\ engine_calls = <<>>
        /\ encode_calls = <<>>

\* C11: when the ROUGE engine fails for one (sentence, reference) pair,
\* compute_rouges puts a zero in that pair's place (0.0 in train mode, the
\* all-zero ScoreDict in test mode), still calls the engine for every remaining
\* reference and sentence, returns one result per input sentence, and never
\* ends with an exception after an engine failure.
Scored(k) == {j \in 1..k : ~is_degenerate(lb_sentences[j])}

C11_EngineFailureBecomesZero ==
    (lb_fn = "compute_rouges" /\ lb_pc # "call") =>
        /\ Len(engine_calls) = Cardinality(Scored(lb_k)) * Len(lb_references)
        /\ \A j \in Scored(lb_k) : \A r \in 1..Len(lb_references) :
              \E c \in 1..Len(engine_calls) :
                  /\ engine_calls[c].sentence = j
                  /\ engine_calls[c].reference = lb_references[r]
        /\ \A c, d \in 1..Len(engine_calls) :
              c < d => \/ engine_calls[c].sentence < engine_calls[d].sentence
                       \/ /\ engine_calls[c].sentence = engine_calls[d].sentence
                          /\ engine_calls[c].reference < engine_calls[d].reference
        /\ lb_k \in Scored(lb_k) =>
              \A r \in 1..Len(lb_references) :
                  engine_calls[Len(engine_calls) - Len(lb_references) + r].raised =>
                      tmp_rouges[r] = (IF is_test THEN ZeroDict ELSE 0)
        /\ lb_pc = "loop" => Len(cr_rouges) = lb_k
        /\ lb_pc = "returned" =>
              lb_out = cr_rouges /\ Len(lb_out) = Len(lb_sentences)
        /\ lb_pc = "raised" => \A c \in 1..Len(engine_calls) : ~engine_calls[c].raised

\* the first pair fails, the second reference and the second sentence are
\* still scored, and two results come back
C11_Witness ==
    /\ lb_fn = "compute_rouges" /\ lb_pc = "returned" /\ is_test
    /\ lb_sentences = <<<<"w">>, <<"w">>>>
    /\ Len(engine_calls) = 4
    /\ engine_calls[1].raised /\ ~engine_calls[2].raised
    /\ Len(lb_out) = 2
    /\ lb_out[1] = MkDict(1, 1)

\* the same in train mode: every pair of the only sentence fails
C11_WitnessTrain ==
    /\ lb_fn = "compute_rouges" /\ lb_pc = "returned" /\ ~is_test
    /\ lb_sentences = <<<<"w">>>> /\ Len(lb_references) = 2
    /\ \A c \in 1..2 : engine_calls[c].raised
    /\ lb_out = <<Rat(0, 1)>>

\* C12: get_scores called with a single sentence returns a one-element
\* sentence list holding that sentence and a one-element score list holding
\* its score, as it does for any other group.
C12_SingleSentenceIsRanked ==
    (rk_pc = "done" /\ Len(rk_sentences) = 1) =>
        /\ rk_out.raised = None
        /\ rk_out.sorted_sentences = rk_sentences
        /\ rk_out.sorted_scores = rk_logits

\* C13: when evaluate_model closes a group, the ranked sentences have passed
\* through trigram blocking before evaluate_article scores them: no two of the
\* sentences handed to evaluate_article for one group share a word trigram.
C13_ScoredSentencesShareNoTrigram ==
    \A k \in 1..Len(article_calls) :
        \A p, q \in 1..Len(article_calls[k].highlights_pred) :
            p < q => ~SharesTrigram(SentenceText[article_calls[k].highlights_pred[p]],
                                    SentenceText[article_calls[k].highlights_pred[q]])

\* C14: for every record clean_dataset appends, the stored highlights string
\* is the kept highlight sentences (newlines removed, stripped) joined by
\* newline; none of them holds a newline or is empty, so splitting the string
\* on newline gives back exactly the kept highlights in order, 3 to 5 of them.
KeptTextsOf(sents) ==
    LET kept == SelectSeq(sents, keep_highlight)
    IN  [p \in 1..Len(kept) |-> strip(remove_char(kept[p], NL))]
KeptTexts == [id \in RecordIds |-> KeptTextsOf(RawRecords[id].sents)]

C14_HighlightsSplitIntoKeptSentences ==
    \A k \in 1..Len(cleaned_ds) :
        LET kept == KeptTexts[ds[cl_taken[k] + 1]]
            highlights == split(cleaned_ds[k].highlights, NL)
        IN  /\ cleaned_ds[k].highlights = join(<<NL>>, kept)
            /\ \A p \in 1..Len(kept) :
                  kept[p] # <<>> /\ \A c \in 1..Len(kept[p]) : kept[p][c] # NL
            /\ highlights = kept
            /\ Len(highlights) \in 3..5

\* record 6: five sentences of which three are kept, the second of these with
\* a newline inside and blanks around it in the raw text
C14_Witness ==
    /\ cl_pc = "returned"
    /\ Len(cleaned_ds) >= 1
    /\ ds[cl_taken[1] + 1] = 6
    /\ Len(RawRecords[6].sents) = 5
    /\ RawRecords[6].sents[3] = <<" ", "w", " ", "w", NL, "w", " ", "w", " ">>
    /\ Len(split(cleaned_ds[1].highlights, NL)) = 3
    /\ split(cleaned_ds[1].highlights, NL)[2] = <<"w", " ", "w", "w", " ", "w">>

====
